---- MODULE Spec2Model ----
(***************************************************************************)
(* A model of meerkat's deferred-map pipeline (src/meerkat/ops/map.py):    *)
(* defer builds a DeferredOp over the bound input columns, probes row 0,   *)
(* infers the output shape and types and returns a DeferredColumn or a     *)
(* DataFrame of DeferredColumns; map = defer followed by _materialize,     *)
(* which runs locally in batches or walks the pipeline for ray.            *)
(* With it: dispatch (src/meerkat/interactive/api/routers/endpoint.py),    *)
(* which runs an endpoint and the trigger cycle of the Store it sets, and  *)
(* sort (src/meerkat/ops/sort.py), the construction of a ScalarColumn      *)
(* (src/meerkat/columns/scalar/abstract.py), of an Interface               *)
(* (src/meerkat/interactive/interface.py), and the start and cleanup of    *)
(* the servers (src/meerkat/interactive/startup.py).                       *)
(*                                                                         *)
(* Python values are records [kind, ty, v, items]: a plain value carries   *)
(* its runtime type ty and payload v, a dict or tuple carries its items.   *)
(* The user functions are per-row functions (is_batched_fn = False).       *)
(***************************************************************************)
EXTENDS Integers, Sequences, FiniteSets, TLC

\* ---------------------------------------------------------------- bounds
MaxRows == 3
MaxBatch == 3
MaxChain == 2
MaxSets == 2
MaxSortRows == 3
MaxAscending == 3
MaxAggs == 2
MaxMade == 2
\* the largest port number bind accepts, standing for 65535
MaxPort == 3
\* meerkat.interactive.server.TRY_NUM_PORTS, scaled
TRY_NUM_PORTS == 2
\* startup.py 221: MAX_WAIT = 100, scaled
MAX_WAIT == 2

\* ------------------------------------------------------- python helpers
NoneV == [kind |-> "none", ty |-> "NoneType", v |-> 0, items |-> <<>>]
Plain(ty, n) == [kind |-> "plain", ty |-> ty, v |-> n, items |-> <<>>]
DictV(items) == [kind |-> "dict", ty |-> "dict", v |-> 0, items |-> items]
TupleV(items) == [kind |-> "tuple", ty |-> "tuple", v |-> 0, items |-> items]
ErrV(e) == [kind |-> "error", ty |-> e, v |-> 0, items |-> <<>>]
Item(k, val) == [k |-> k, v |-> val]

\* type(x)
TypeOf(val) == val.ty

\* str(i) for the small indices the model uses
Digits == <<"0", "1", "2", "3", "4", "5", "6", "7", "8", "9">>
Str(i) == Digits[i + 1]

\* an insertion-ordered dict is a sequence of items [k, v]
Keys(d) == {d[i].k : i \in 1..Len(d)}
Has(d, k) == k \in Keys(d)
Get(d, k) == d[CHOOSE i \in 1..Len(d) : d[i].k = k].v

\* ------------------------------------------------------- user functions
\* lambda x: x * 2;  lambda x, y: x + y;  lambda x, z=100: x + z;
\* lambda x: {"a": x, "b": x >= 2};  lambda x: (x, x >= 2)
Fns == {"double", "add", "addz", "stats", "pair"}
Param(name, hasDefault, default) ==
    [name |-> name, hasDefault |-> hasDefault, default |-> default]
Params(fn) ==
    CASE fn = "add" -> <<Param("x", FALSE, 0), Param("y", FALSE, 0)>>
      [] fn = "addz" -> <<Param("x", FALSE, 0), Param("z", TRUE, 100)>>
      [] OTHER -> <<Param("x", FALSE, 0)>>
Ge2(x) == IF x >= 2 THEN 1 ELSE 0
Body(fn, env) ==
    CASE fn = "double" -> Plain("int", env["x"] * 2)
      [] fn = "add" -> Plain("int", env["x"] + env["y"])
      [] fn = "addz" -> Plain("int", env["x"] + env["z"])
      [] fn = "stats" -> DictV(<<Item("a", Plain("int", env["x"])),
                                 Item("b", Plain("bool", Ge2(env["x"])))>>)
      [] fn = "pair" -> TupleV(<<Item("", Plain("int", env["x"])),
                                 Item("", Plain("bool", Ge2(env["x"])))>>)

\* Python's binding of positional and keyword arguments to the parameters
ParamNames(fn) == {Params(fn)[j].name : j \in 1..Len(Params(fn))}
BindOk(fn, pos, kw) ==
    /\ Len(pos) <= Len(Params(fn))
    /\ Keys(kw) \subseteq ParamNames(fn)
    /\ \A j \in 1..Len(Params(fn)) :
          LET p == Params(fn)[j] IN
          IF j <= Len(pos) THEN ~Has(kw, p.name)
          ELSE Has(kw, p.name) \/ p.hasDefault
Env(fn, pos, kw) ==
    [name \in ParamNames(fn) |->
        LET j == CHOOSE i \in 1..Len(Params(fn)) : Params(fn)[i].name = name IN
        IF j <= Len(pos) THEN pos[j]
        ELSE IF Has(kw, name) THEN Get(kw, name)
        ELSE Params(fn)[j].default]
Call(fn, pos, kw) ==
    IF BindOk(fn, pos, kw) THEN Body(fn, Env(fn, pos, kw)) ELSE ErrV("TypeError")

\* ----------------------------------------------------------------- data
\* A column "x" holds 1, 2, 3, ...; a column "y" holds 10, 20, 30, ...
\* (rows are 0-based, as in the source).
ColVal(col, i) == IF col = "y" THEN 10 * (i + 1) ELSE i + 1
Column(n) == [kind |-> "column", cols |-> {"x"}, n |-> n]
Frame(cols, n) == [kind |-> "frame", cols |-> cols, n |-> n]
DataOpts ==
    {Column(n) : n \in 0..MaxRows}
        \cup {Frame(c, n) : c \in {{"x"}, {"x", "y"}}, n \in 0..MaxRows}

Arg(kind, t, items) == [kind |-> kind, t |-> t, items |-> items]
NoneArg == Arg("none", "", <<>>)
\* inputs: None, {col_name: kw}, [col_name, ...] or anything else (e.g. 5)
InputsOpts(d) ==
    {NoneArg, Arg("other", "", <<>>),
     Arg("mapping", "", <<Item("x", "x")>>),
     Arg("sequence", "", <<Item("", "x")>>)}
        \cup (IF "y" \in d.cols
              THEN {Arg("mapping", "", <<Item("x", "x"), Item("y", "y")>>),
                    Arg("sequence", "", <<Item("", "x"), Item("", "y")>>)}
              ELSE {})
\* outputs: None, "single", {output_key: col_name}, (col_name, ...) or other
OutputsOpts ==
    {NoneArg, Arg("single", "", <<>>), Arg("other", "", <<>>),
     Arg("mapping", "", <<Item("a", "p"), Item("b", "q")>>),
     Arg("mapping", "", <<Item("a", "p")>>),
     Arg("sequence", "", <<Item("", "p"), Item("", "q")>>)}
\* output_type: None, a type, {col_name: type}, [type, ...] or other
OutputTypeOpts ==
    {NoneArg, Arg("type", "object", <<>>), Arg("other", "", <<>>),
     Arg("mapping", "", <<Item("p", "object"), Item("q", "object")>>),
     Arg("sequence", "", <<Item("", "object"), Item("", "object")>>),
     Arg("sequence", "", <<Item("", "object")>>)}

\* ---------------------------------------------------------------- state
VARIABLES
    data,           \* the Column or DataFrame passed to defer / map
    function,       \* the user function
    given,          \* inputs, outputs, output_type as the caller passed them
    outputs,        \* defer's local `outputs` (reassigned by the inference)
    output_type,    \* defer's local `output_type`
    args,           \* DeferredOp.args: the positional input columns
    kwargs,         \* DeferredOp.kwargs: keyword -> input column
    return_format,  \* DeferredOp.return_format
    first_row,      \* the probed row 0, None when the data is empty
    result,         \* what defer returned
    pc,             \* position in defer / _materialize
    err,            \* the exception raised, "" when none
    raisedAt,       \* the step that raised
    calls,          \* number of invocations of the user function
    batch_size,     \* _materialize's batch_size
    batch_start,    \* the loop variable of the local materialization
    requested,      \* the slices handed to data._get, in order
    batches,        \* the list `result` of _materialize
    out,            \* what _materialize returned
    chain,          \* use_ray: the DeferredColumns met from the requested one back
    base,           \* use_ray: the kind of the column below the last of them
    curr,           \* use_ray: `curr` of the walk, an index into chain
    fns,            \* use_ray: the list `fns`
    dataset,        \* use_ray: whether the ray dataset has been built
    rpc,            \* use_ray: position in _materialize
    rerr,           \* use_ray: the exception raised, "" when none
    pipe,           \* use_ray: the functions mapped onto the pipeline, in order
    declared,       \* use_ray: data.output_type and data.data.return_format
    container,      \* use_ray: the container of the collected result
    rout,           \* use_ray: the collected rows
    graph,          \* reactive graph: node -> the Store / node outputs it reads
    nodeKind,       \* node -> what its output is: a frame, a store, a backend store
    failing,        \* the node whose body raises, on which value, and what
    storeA,         \* the value of Store A
    outVal,         \* node -> the value of its output
    pending,        \* dispatch requests that arrived and have not started
    running,        \* the requests whose trigger cycle is in flight
    cyc,            \* request -> its set value, executed nodes, modifications
    responses,      \* request -> what dispatch returned or raised
    elog,           \* the events of all cycles, in order
    sdata,          \* sort: the DataPanel `data`, column -> values
    by,             \* sort: `by` as the caller passed it
    ascending,      \* sort: `ascending` as the caller passed it
    by_list,        \* sort: the local `by` after line 32
    asc_list,       \* sort: the local `ascending` after line 36
    keys,           \* sort: the list `keys`
    sorted_indices, \* sort: `sorted_indices`, row numbers from 0
    sview,          \* sort: the rows of the returned view
    spc,            \* sort: position in sort
    serr,           \* sort: the exception raised, "" when none
    cls,            \* ScalarColumn.__new__: the class being constructed
    cdata,          \* ScalarColumn.__new__: `data`, by its type
    backend,        \* ScalarColumn.__new__: `backend`
    instance,       \* the class of the object __new__ returned, "" when none
    cpc,            \* position in the construction
    cerr,           \* the exception raised, "" when none
    dispatched,     \* how many times a backend was selected (lines 32-55)
    aggs,           \* the aggregation calls made on the column
    files,          \* Interface: the files under APP_DIR, path -> content
    made,           \* Interface: the constructions so far, each with its outcome
    busy,           \* the ports on which bind raises OSError
    initial,        \* get_first_available_port: `initial`
    final,          \* get_first_available_port: `final`
    found,          \* get_first_available_port: the ports tried and the outcome
    ppc,            \* position in get_first_available_port
    sargs,          \* start: shareable, dev, api_port, npm_port as passed
    entry,          \* start: os.getcwd() and state.network_info at the call
    cwd,            \* the working directory of the process
    currdir,        \* start: `currdir`
    api_port,       \* start: `api_port` after the search
    npm_port,       \* start: `npm_port` after the search
    procs,          \* the processes start launched: port, what they run, status
    npm_out,        \* the lines of the file at out_path
    attempt,        \* start: `i` of the loop over range(TRY_NUM_PORTS)
    polls,          \* start: the iterations done of the loop over range(MAX_WAIT)
    match,          \* start: `match`
    network_info,   \* start: `network_info`
    state_network_info, \* state.network_info
    stpc,           \* position in start / cleanup
    sterr           \* the exception start raised, "" when none

deferVars == <<data, function, given, outputs, output_type, args, kwargs,
               return_format, first_row, result, pc, err, raisedAt, calls>>
matVars == <<batch_size, batch_start, requested, batches, out>>
rayVars == <<chain, base, curr, fns, dataset, rpc, rerr, pipe, declared, container,
            rout>>
trigVars == <<graph, nodeKind, failing, storeA, outVal, pending, running, cyc,
             responses, elog>>
sortVars == <<sdata, by, ascending, by_list, asc_list, keys, sorted_indices,
             sview, spc, serr>>
colVars == <<cls, cdata, backend, instance, cpc, cerr, dispatched, aggs>>
coreVars == <<deferVars, matVars, rayVars, trigVars, sortVars>>
ifaceVars == <<files, made>>
portVars == <<busy, initial, final, found, ppc>>
startVars == <<sargs, entry, cwd, currdir, api_port, npm_port, procs, npm_out,
              attempt, polls, match, network_info, state_network_info, stpc, sterr>>
appVars == <<colVars, ifaceVars, portVars, startVars>>
vars == <<coreVars, appVars>>
\* what the actions of one part leave alone
notLocal == <<rayVars, trigVars, sortVars, appVars>>
notRay == <<deferVars, matVars, trigVars, sortVars, appVars>>
notTrigger == <<deferVars, matVars, rayVars, sortVars, appVars>>
notSort == <<deferVars, matVars, rayVars, trigVars, appVars>>
notCol == <<coreVars, ifaceVars, portVars, startVars>>
notIface == <<coreVars, colVars, portVars, startVars>>
notPort == <<coreVars, colVars, ifaceVars, startVars>>
notStart == <<coreVars, colVars, ifaceVars, portVars>>

\* ---------------------------------------------------------------- defer
Prepared(e, a, k) == [err |-> e, args |-> a, kwargs |-> k]

\* faulty variant: the signature inference never reports a missing required parameter
InferKwargs_NoCheck(fn, d) ==
    LET bound == SelectSeq(Params(fn), LAMBDA p : p.name \in d.cols)
    IN [err |-> "", args |-> <<>>,
        kwargs |-> [j \in 1..Len(bound) |-> [k |-> bound[j].name, v |-> bound[j].name]]]

\* inputs=None: the function's signature decides the keyword bindings
InferKwargs(fn, d) ==
    LET bound == SelectSeq(Params(fn), LAMBDA p : p.name \in d.cols)
        missing == \E j \in 1..Len(Params(fn)) :
                      /\ Params(fn)[j].name \notin d.cols
                      /\ ~Params(fn)[j].hasDefault
    IN IF missing THEN Prepared("ValueError", <<>>, <<>>)
       ELSE Prepared("", <<>>,
                [j \in 1..Len(bound) |-> Item(bound[j].name, bound[j].name)])

PrepareArgs(d, fn, inp) ==
    IF d.kind = "column" THEN Prepared("", <<"x">>, <<>>)
    ELSE CASE inp.kind = "mapping" ->
                Prepared("", <<>>, [j \in 1..Len(inp.items) |->
                                      Item(inp.items[j].v, inp.items[j].k)])
           [] inp.kind = "sequence" ->
                Prepared("", [j \in 1..Len(inp.items) |-> inp.items[j].v], <<>>)
           [] inp.kind = "none" -> InferKwargs(fn, d)
           [] OTHER -> Prepared("ValueError", <<>>, <<>>)

\* type(outputs) if outputs is not None else None
ReturnFormat(o) ==
    CASE o.kind = "none" -> "None"
      [] o.kind = "single" -> "str"
      [] o.kind = "mapping" -> "dict"
      [] o.kind = "sequence" -> "tuple"
      [] OTHER -> "int"

\* len(op): the common length of the bound input columns
OpLen(d) == d.n
\* the operation applied to row i: one call of the function on row i's values
RowCall(fn, a, k, i) ==
    Call(fn, [j \in 1..Len(a) |-> ColVal(a[j], i)],
             [j \in 1..Len(k) |-> Item(k[j].k, ColVal(k[j].v, i))])

\* faulty variant: the probe runs the function on every row
ProbeRows_All(d) == 0..(d.n - 1)

\* the rows the probe touches: op._get(0) if len(op) > 0 else None
ProbeRows(d) == IF OpLen(d) > 0 THEN {0} ELSE {}

\* faulty variant: the columns of a tuple row are numbered from 1
InferOutputs_OneBased(o, row) ==
    IF o.kind = "none" /\ row.kind = "dict"
    THEN [kind |-> "mapping", t |-> "", items |-> [j \in 1..Len(row.items) |->
            [k |-> row.items[j].k, v |-> row.items[j].k]]]
    ELSE IF o.kind = "none" /\ row.kind = "tuple"
    THEN [kind |-> "sequence", t |-> "", items |-> [j \in 1..Len(row.items) |->
            [k |-> "", v |-> Str(j)]]]
    ELSE o

\* the two inferences of `outputs` from the probed row
InferOutputs(o, row) ==
    IF o.kind = "none" /\ row.kind = "dict"
    THEN Arg("mapping", "", [j \in 1..Len(row.items) |->
                                Item(row.items[j].k, row.items[j].k)])
    ELSE IF o.kind = "none" /\ row.kind = "tuple"
    THEN Arg("sequence", "", [j \in 1..Len(row.items) |-> Item("", Str(j - 1))])
    ELSE o

Sel(tag, key, pos) == [tag |-> tag, key |-> key, pos |-> pos]
NoSel == Sel("none", "", 0)
DCol(name, sel, otype) == [name |-> name, sel |-> sel, otype |-> otype]
Res(kind, cols) == [kind |-> kind, cols |-> cols]
NoRes == Res("nothing", <<>>)
Finished(e, r) == [err |-> e, result |-> r]

\* faulty variant: the output type is not checked to be a type
FinishSingle_NoTypeCheck(ot, row) ==
    LET t == IF ot.kind = "none" THEN Arg("type", TypeOf(row), <<>>) ELSE ot
    IN Finished("", Res("column", <<DCol("", NoSel, t.t)>>))
\* faulty variant: the output type is inferred from the probe even when there is none
FinishSingle_TypeOfNone(ot, row) ==
    LET t == IF ot.kind = "none" THEN Arg("type", TypeOf(row), <<>>) ELSE ot
    IN IF t.kind # "type" THEN Finished("ValueError", NoRes)
       ELSE Finished("", Res("column", <<DCol("", NoSel, t.t)>>))

\* outputs is None or outputs == "single"
FinishSingle(ot, row) ==
    LET t == IF ot.kind = "none" /\ row.kind # "none"
             THEN Arg("type", TypeOf(row), <<>>) ELSE ot
    IN IF t.kind # "type" THEN Finished("ValueError", NoRes)
       ELSE Finished("", Res("column", <<DCol("", NoSel, t.t)>>))

\* isinstance(outputs, Mapping)
FinishMapping(o, ot, row) ==
    IF ot.kind = "none" /\ row.kind # "dict" THEN Finished("AttributeError", NoRes)
    ELSE IF ot.kind = "none" /\ ~(Keys(row.items) \subseteq Keys(o.items))
    THEN Finished("KeyError", NoRes)
    ELSE LET t == IF ot.kind = "none"
                  THEN Arg("mapping", "", [j \in 1..Len(row.items) |->
                            Item(Get(o.items, row.items[j].k),
                                 TypeOf(row.items[j].v))])
                  ELSE ot
         IN IF t.kind # "mapping" THEN Finished("ValueError", NoRes)
            ELSE IF \E j \in 1..Len(o.items) : ~Has(t.items, o.items[j].v)
            THEN Finished("KeyError", NoRes)
            ELSE Finished("", Res("frame", [j \in 1..Len(o.items) |->
                    DCol(o.items[j].v, Sel("key", o.items[j].k, 0),
                         Get(t.items, o.items[j].v))]))

\* isinstance(outputs, Sequence)
FinishSequence(o, ot, row) ==
    IF ot.kind = "none" /\ row.kind \notin {"dict", "tuple"}
    THEN Finished("TypeError", NoRes)
    ELSE LET t == IF ot.kind = "none"
                  THEN Arg("sequence", "", [j \in 1..Len(row.items) |->
                            Item("", IF row.kind = "dict" THEN "str"
                                     ELSE TypeOf(row.items[j].v))])
                  ELSE ot
         IN IF t.kind # "sequence" THEN Finished("ValueError", NoRes)
            ELSE IF Len(o.items) > Len(t.items) THEN Finished("IndexError", NoRes)
            ELSE Finished("", Res("frame", [j \in 1..Len(o.items) |->
                    DCol(o.items[j].v, Sel("pos", "", j - 1), t.items[j].v)]))

\* faulty variant: "single", a str, is taken for a sequence of column names
Finish_SingleAsSequence(o, ot, row) ==
    CASE o.kind = "none" -> FinishSingle(ot, row)
      [] o.kind = "mapping" -> FinishMapping(o, ot, row)
      [] o.kind \in {"sequence", "single"} -> FinishSequence(o, ot, row)
      [] OTHER -> Finished("", Res("None", <<>>))

Finish(o, ot, row) ==
    CASE o.kind \in {"none", "single"} -> FinishSingle(ot, row)
      [] o.kind = "mapping" -> FinishMapping(o, ot, row)
      [] o.kind = "sequence" -> FinishSequence(o, ot, row)
      [] OTHER -> Finished("", Res("None", <<>>))

\* ------------------------------------------------- local materialization
Min(a, b) == IF a <= b THEN a ELSE b

\* the selection a DeferredColumn's block_index makes in a row's raw result
Select(raw, sel) ==
    CASE sel.tag = "none" -> raw
      [] sel.tag = "key" ->
            IF raw.kind # "dict" THEN ErrV("TypeError")
            ELSE IF ~Has(raw.items, sel.key) THEN ErrV("KeyError")
            ELSE Get(raw.items, sel.key)
      [] OTHER ->
            IF raw.kind = "dict" THEN ErrV("KeyError")
            ELSE IF raw.kind # "tuple" THEN ErrV("TypeError")
            ELSE IF sel.pos >= Len(raw.items) THEN ErrV("IndexError")
            ELSE raw.items[sel.pos + 1].v

\* row i of the materialized column (a value) or frame (column name -> value)
RowOut(res, raw) ==
    IF res.kind = "column" THEN Select(raw, res.cols[1].sel)
    ELSE IF \E j \in 1..Len(res.cols) : Select(raw, res.cols[j].sel).kind = "error"
    THEN Select(raw, res.cols[CHOOSE j \in 1..Len(res.cols) :
                        Select(raw, res.cols[j].sel).kind = "error"].sel)
    ELSE DictV([j \in 1..Len(res.cols) |->
                  Item(res.cols[j].name, Select(raw, res.cols[j].sel))])

\* data._get(slice(lo, hi, 1), materialize=True): the rows lo .. min(hi, len) - 1
DataGet(res, fn, a, k, n, sl) ==
    [j \in 1..(Min(sl[2], n) - Min(sl[1], n)) |->
        RowOut(res, RowCall(fn, a, k, sl[1] + j - 1))]

RECURSIVE Concat(_)
Concat(bs) == IF bs = <<>> THEN <<>> ELSE Head(bs) \o Concat(Tail(bs))

\* faulty variants: a range that skips a row between batches; a slice one row short
RangeStep_Skip(start, step) == start + step + 1
SliceOf_Short(start, size) == <<start, start + size - 1>>

\* range(0, len(data), batch_size) and the slice of one iteration
RangeHas(start, stop) == start < stop
RangeStep(start, step) == start + step
SliceOf(start, size) == <<start, start + size>>

\* ------------------------------------------------------ actions: defer
\* map.py 201-226: prepare the arguments of the DeferredOp
Prepare ==
    /\ pc = "prepare"
    /\ LET p == PrepareArgs(data, function, given.inputs) IN
       /\ args' = p.args
       /\ kwargs' = p.kwargs
       /\ err' = p.err
       /\ pc' = IF p.err = "" THEN "probe" ELSE "raised"
       /\ raisedAt' = IF p.err = "" THEN "" ELSE "prepare"
    /\ UNCHANGED <<data, function, given, outputs, output_type, return_format,
                   first_row, result, calls>>
    /\ UNCHANGED <<matVars, notLocal>>

\* map.py 228-239: build the op and the block, probe row 0
Probe ==
    /\ pc = "probe"
    /\ return_format' = ReturnFormat(outputs)
    /\ LET row == IF ProbeRows(data) # {}
                  THEN RowCall(function, args, kwargs, 0) ELSE NoneV IN
       /\ calls' = calls + Cardinality(ProbeRows(data))
       /\ IF row.kind = "error"
          THEN /\ err' = row.ty
               /\ pc' = "raised"
               /\ raisedAt' = "probe"
               /\ first_row' = first_row
          ELSE /\ first_row' = row
               /\ pc' = "infer"
               /\ UNCHANGED <<err, raisedAt>>
    /\ UNCHANGED <<data, function, given, outputs, output_type, args, kwargs,
                   result>>
    /\ UNCHANGED <<matVars, notLocal>>

\* map.py 241-249: outputs inferred from a dict or tuple row
Infer ==
    /\ pc = "infer"
    /\ outputs' = InferOutputs(outputs, first_row)
    /\ return_format' = IF outputs' # outputs THEN ReturnFormat(outputs')
                        ELSE return_format
    /\ pc' = "finish"
    /\ UNCHANGED <<data, function, given, output_type, args, kwargs, first_row,
                   result, err, raisedAt, calls>>
    /\ UNCHANGED <<matVars, notLocal>>

\* map.py 251-299: the output types and the returned column or frame
Build ==
    /\ pc = "finish"
    /\ LET f == Finish(outputs, output_type, first_row) IN
       /\ err' = f.err
       /\ result' = f.result
       /\ pc' = IF f.err = "" THEN "returned" ELSE "raised"
       /\ raisedAt' = IF f.err = "" THEN "" ELSE "finish"
    /\ UNCHANGED <<data, function, given, outputs, output_type, args, kwargs,
                   return_format, first_row, calls>>
    /\ UNCHANGED <<matVars, notLocal>>

\* ------------------------------------- actions: _materialize, use_ray=False
\* map.py 433-440, 527-528: map hands defer's result to _materialize
MatBegin ==
    /\ pc = "returned"
    /\ \E b \in 1..MaxBatch : batch_size' = b
    /\ IF result.kind = "None"
       THEN /\ err' = "TypeError"
            /\ raisedAt' = "materialize"
            /\ pc' = "raised"
       ELSE /\ pc' = "batching"
            /\ UNCHANGED <<err, raisedAt>>
    /\ batch_start' = 0
    /\ UNCHANGED <<requested, batches, out>>
    /\ UNCHANGED <<data, function, given, outputs, output_type, args, kwargs,
                   return_format, first_row, result, calls>>
    /\ UNCHANGED notLocal

\* map.py 528-533: one iteration of the loop over the batches
MatBatch ==
    /\ pc = "batching"
    /\ RangeHas(batch_start, OpLen(data))
    /\ LET sl == SliceOf(batch_start, batch_size)
           got == DataGet(result, function, args, kwargs, OpLen(data), sl)
           bad == {j \in 1..Len(got) : got[j].kind = "error"}
       IN /\ requested' = Append(requested, sl)
          /\ calls' = calls + Len(got)
          /\ IF bad # {}
             THEN /\ err' = got[CHOOSE j \in bad : \A i \in bad : j <= i].ty
                  /\ raisedAt' = "materialize"
                  /\ pc' = "raised"
                  /\ UNCHANGED <<batches, batch_start>>
             ELSE /\ batches' = Append(batches, got)
                  /\ batch_start' = RangeStep(batch_start, batch_size)
                  /\ UNCHANGED <<err, raisedAt, pc>>
    /\ UNCHANGED <<batch_size, out>>
    /\ UNCHANGED <<data, function, given, outputs, output_type, args, kwargs,
                   return_format, first_row, result>>
    /\ UNCHANGED notLocal

\* map.py 534: return concat(result)
MatEnd ==
    /\ pc = "batching"
    /\ ~RangeHas(batch_start, OpLen(data))
    /\ out' = Concat(batches)
    /\ pc' = "materialized"
    /\ UNCHANGED <<batch_size, batch_start, requested, batches>>
    /\ UNCHANGED <<data, function, given, outputs, output_type, args, kwargs,
                   return_format, first_row, result, err, raisedAt, calls>>
    /\ UNCHANGED notLocal

\* -------------------------------------- actions: _materialize, use_ray=True
\* A DeferredColumn of the pipeline: its function and how many positional and
\* keyword input columns its DeferredOp holds.
Node(fn, na, nk) == [fn |-> fn, nargs |-> na, nkwargs |-> nk]
Nodes == {Node(f, a, k) : f \in {"f", "g"}, a \in 0..2, k \in 0..2}
RECURSIVE Chains(_)
Chains(n) ==
    IF n = 0 THEN {<<>>}
    ELSE Chains(n - 1) \cup
         {Append(c, nd) : c \in {c \in Chains(n - 1) : Len(c) = n - 1}, nd \in Nodes}

Walked(e, follow) == [err |-> e, follow |-> follow]
\* map.py 473-482: the input column the walk follows from one DeferredColumn
WalkNext(nd) ==
    IF nd.nargs > 0
    THEN IF nd.nargs > 1 THEN Walked("ValueError", "") ELSE Walked("", "arg")
    ELSE IF nd.nkwargs > 0
    THEN IF nd.nkwargs > 1 THEN Walked("ValueError", "") ELSE Walked("", "kwarg")
    ELSE Walked("ValueError", "")

\* map.py 468-482: one iteration of the backward walk
RayWalk ==
    /\ rpc = "walk"
    /\ curr <= Len(chain)
    /\ fns' = Append(fns, chain[curr].fn)
    /\ LET w == WalkNext(chain[curr]) IN
       IF w.err # ""
       THEN /\ rerr' = w.err
            /\ rpc' = "raised"
            /\ curr' = curr
       ELSE /\ curr' = curr + 1
            /\ UNCHANGED <<rerr, rpc>>
    /\ UNCHANGED <<chain, base, dataset, pipe, declared, container, rout>>
    /\ UNCHANGED notRay

\* map.py 484-489: the ray dataset of the base column
RayDataset ==
    /\ rpc = "walk"
    /\ curr > Len(chain)
    /\ IF base = "ScalarColumn"
       THEN /\ dataset' = TRUE
            /\ fns' = Append(fns, "extract")
            /\ rpc' = "pipeline"
            /\ rerr' = rerr
       ELSE /\ rerr' = "ValueError"
            /\ rpc' = "raised"
            /\ UNCHANGED <<dataset, fns>>
    /\ UNCHANGED <<chain, base, curr, pipe, declared, container, rout>>
    /\ UNCHANGED notRay

\* the rows of the ray dataset: pd.DataFrame({"0": curr}) of the base column,
\* which holds 1, 2, ..., MaxRows
RayRow(v) == <<"row", v>>
RayVal(v) == <<"val", v>>
BaseRows == [i \in 1..MaxRows |-> RayRow(ColVal("x", i - 1))]
\* the functions of the pipeline: lambda x: x["0"], and the users' f: x + 1 and
\* g: x * 2 (a function given a value of the wrong kind raises)
RayApply(fn, x) ==
    CASE x[1] = "err" -> x
      [] fn = "extract" -> IF x[1] = "row" THEN RayVal(x[2]) ELSE <<"err", 0>>
      [] x[1] # "val" -> <<"err", 0>>
      [] fn = "f" -> RayVal(x[2] + 1)
      [] OTHER -> RayVal(x[2] * 2)
RECURSIVE RayApplyAll(_, _)
RayApplyAll(fs, x) ==
    IF fs = <<>> THEN x ELSE RayApplyAll(Tail(fs), RayApply(Head(fs), x))

\* faulty variant: the functions are mapped in the order of the walk
ReversedAt_Forward(fs, k) == fs[k]

\* element k of reversed(fns)
ReversedAt(fs, k) == fs[Len(fs) - k + 1]

\* map.py 491-495: one iteration of `for fn in reversed(fns): pipe = pipe.map(fn)`
RayPipe ==
    /\ rpc = "pipeline"
    /\ Len(pipe) < Len(fns)
    /\ pipe' = Append(pipe, ReversedAt(fns, Len(pipe) + 1))
    /\ UNCHANGED <<chain, base, curr, fns, dataset, rpc, rerr, declared, container,
                   rout>>
    /\ UNCHANGED notRay

\* the declared types a DeferredColumn can carry
OutputTypes == {"NumPyTensorColumn", "TorchTensorColumn", "ObjectColumn",
                "ScalarColumn", "PandasScalarColumn"}
ReturnFormats == {"None", "dict", "ScalarColumn"}
Declared(ot, rf) == [output_type |-> ot, return_format |-> rf]
\* map.py 502-524: the container the partitions are reassembled into
Container(d) ==
    CASE d.output_type = "NumPyTensorColumn" -> "np.stack"
      [] d.output_type = "TorchTensorColumn" -> "torch.stack"
      [] d.output_type = "ObjectColumn" -> "np.stack"
      [] d.return_format = "ScalarColumn" -> "list"
      [] OTHER -> "ValueError"

\* map.py 497-524: collect the partitions of the rewindowed pipeline
RayCollect ==
    /\ rpc = "pipeline"
    /\ Len(pipe) = Len(fns)
    /\ \E ot \in OutputTypes, rf \in ReturnFormats : declared' = Declared(ot, rf)
    /\ LET rows == [i \in 1..Len(BaseRows) |-> RayApplyAll(pipe, BaseRows[i])] IN
       IF \E i \in 1..Len(rows) : rows[i][1] = "err"
       THEN /\ rerr' = "TypeError"
            /\ rpc' = "raised"
            /\ UNCHANGED <<container, rout>>
       ELSE IF Container(declared') = "ValueError"
       THEN /\ rerr' = "ValueError"
            /\ rpc' = "raised"
            /\ UNCHANGED <<container, rout>>
       ELSE /\ container' = Container(declared')
            /\ rout' = rows
            /\ rpc' = "done"
            /\ rerr' = rerr
    /\ UNCHANGED <<chain, base, curr, fns, dataset, pipe>>
    /\ UNCHANGED notRay

\* ------------------------------------------- reactive graph and dispatch
\* Store A and the reactive nodes N1, N2. graph[n] is what node n reads: the
\* Store "A" and / or the output of the other node. The body of a node adds
\* what it reads to a constant of its own.
TNodes == {"N1", "N2"}
Vals == {0, 1}
Graphs ==
    {g \in [TNodes -> SUBSET {"A", "N1", "N2"}] :
        /\ \A n \in TNodes : n \notin g[n]
        /\ ~("N2" \in g["N1"] /\ "N1" \in g["N2"])}
NodeBody(g, n, a, outs) ==
    (IF n = "N1" THEN 1 ELSE 2)
        + (IF "A" \in g[n] THEN a ELSE 0)
        + (IF "N1" \in g[n] THEN outs["N1"] ELSE 0)
        + (IF "N2" \in g[n] THEN outs["N2"] ELSE 0)
\* the outputs of a graph every node of which has run on the Store's value a
Settled(g, a) ==
    CHOOSE o \in [TNodes -> 0..8] : \A n \in TNodes : o[n] = NodeBody(g, n, a, o)

\* Collect: the nodes that depend on Store A, directly or through the output
\* of a node that does
RECURSIVE Reach(_, _)
Reach(g, seen) ==
    LET more == {n \in TNodes \ seen : g[n] \cap (seen \cup {"A"}) # {}}
    IN IF more = {} THEN seen ELSE Reach(g, seen \cup more)
Affected(g) == Reach(g, {})
Range(sq) == {sq[i] : i \in 1..Len(sq)}
\* faulty variant: a node is run as soon as it is reachable
Ready_Unordered(g, done) == Affected(g) \ Range(done)

\* Topological order: a node runs once, after its upstream nodes of this cycle
Ready(g, done) ==
    {n \in Affected(g) \ Range(done) : (g[n] \cap Affected(g)) \subseteq Range(done)}

\* a Modification; only a StoreModification carries backend_only
Mod(n, val, kind) ==
    [target |-> n, value |-> val,
     kind |-> IF kind = "frame" THEN "frame" ELSE "store",
     backend_only |-> (kind = "backend")]
\* faulty variant: an output is recorded whether or not its value changed
Changed_Always(old, new) == TRUE

\* Record: the widest equality check of the output's type
Changed(old, new) == old # new

NoCycle == [state |-> "none", value |-> 0, during |-> 0, before |-> <<>>,
            executed |-> <<>>, mods |-> <<>>]
Outcome(raised, msg, res, mods) ==
    [raised |-> raised, msg |-> msg, result |-> res, modifications |-> mods]
\* endpoint.partial(**fn_kwargs).run(): what the finished cycle hands back
RunOutcome(c) ==
    IF c.state = "failed"
    THEN Outcome(failing.exc, failing.node, NoneV, <<>>)
    ELSE Outcome("", "", Plain("int", c.value), c.mods)

Response(state, res, mods, error) ==
    [state |-> state, result |-> res, modifications |-> mods, error |-> error]
NoResponse == Response("none", NoneV, <<>>, "")
NoError == "None"
\* faulty variants: every store modification is dropped; nothing is dropped
FilterMods_NoStores(mods) == SelectSeq(mods, LAMBDA m : m.kind # "store")
DispatchOf_Unfiltered(o) ==
    IF o.raised = "TriggerError" THEN Response("returned", NoneV, <<>>, o.msg)
    ELSE IF o.raised # "" THEN Response("raised", NoneV, <<>>, o.raised)
    ELSE Response("returned", o.result, o.modifications, NoError)
\* faulty variant: the modifications made before the failure are sent
DispatchOf_KeepResult(o) ==
    IF o.raised # "" THEN Response("raised", NoneV, <<>>, o.raised)
    ELSE Response("returned", o.result, o.modifications, NoError)

\* faulty variant: every exception of the run is turned into an error record
DispatchOf_AbsorbAll(o) ==
    IF o.raised # "" THEN Response("returned", NoneV, <<>>, o.msg)
    ELSE Response("returned", o.result, o.modifications, NoError)

\* endpoint.py 27-31: only store modifications that are not backend_only
FilterMods(mods) ==
    SelectSeq(mods, LAMBDA m : ~(m.kind = "store" /\ m.backend_only))
\* endpoint.py 20-34: what dispatch returns, or the exception that leaves it
DispatchOf(o) ==
    IF o.raised = "TriggerError" THEN Response("returned", NoneV, <<>>, o.msg)
    ELSE IF o.raised # "" THEN Response("raised", NoneV, <<>>, o.raised)
    ELSE Response("returned", o.result, FilterMods(o.modifications), NoError)

Requests == 1..MaxSets
Arrived == {r \in Requests : cyc[r].state # "none"}
\* faulty variant: a set starts its cycle while another is in flight
MayStart_Always(r) == TRUE

\* cycles are serialized: the head of the queue starts when none is in flight
MayStart(r) == running = {}

\* the body of node n signals its error on one value of the Store
Fails(n, a) == failing.node = n /\ failing.on = a

\* faulty variant: the cycle goes on after a node failed
Aborted_Continue(c, n) == [c EXCEPT !.executed = Append(@, n)]

\* failure semantics: the cycle aborts early, no further node executes
Aborted(c, n) == [c EXCEPT !.state = "failed", !.executed = Append(@, n)]

\* a dispatch request arrives: its endpoint will set Store A to v
Arrive ==
    /\ Cardinality(Arrived) < MaxSets
    /\ \E v \in Vals :
          LET r == Cardinality(Arrived) + 1 IN
          /\ cyc' = [cyc EXCEPT ![r] =
                        [NoCycle EXCEPT !.state = "queued", !.value = v,
                            !.during = IF running = {} THEN 0
                                       ELSE CHOOSE x \in running : TRUE]]
          /\ pending' = Append(pending, r)
    /\ UNCHANGED <<graph, nodeKind, failing, storeA, outVal, running, responses,
                   elog>>
    /\ UNCHANGED notTrigger

\* endpoint.py 21, chat.py 57: the endpoint runs and sets the Store; Start and
\* Collect of the trigger cycle
StartCycle ==
    /\ pending # <<>>
    /\ MayStart(Head(pending))
    /\ LET r == Head(pending) IN
       /\ pending' = Tail(pending)
       /\ running' = running \cup {r}
       /\ storeA' = cyc[r].value
       /\ cyc' = [cyc EXCEPT ![r].state = "running",
                             ![r].before = <<storeA, outVal>>]
       /\ elog' = Append(elog, <<r, "start">>)
    /\ UNCHANGED <<graph, nodeKind, failing, outVal, responses>>
    /\ UNCHANGED notTrigger

\* Execute and Record: one node of the cycle runs
ExecNode ==
    /\ \E r \in running, n \in TNodes :
          /\ cyc[r].state = "running"
          /\ n \in Ready(graph, cyc[r].executed)
          /\ elog' = Append(elog, <<r, n>>)
          /\ IF Fails(n, storeA)
             THEN /\ cyc' = [cyc EXCEPT ![r] = Aborted(@, n)]
                  /\ outVal' = outVal
             ELSE LET new == NodeBody(graph, n, storeA, outVal) IN
                  /\ outVal' = [outVal EXCEPT ![n] = new]
                  /\ cyc' = [cyc EXCEPT
                        ![r].executed = Append(@, n),
                        ![r].mods = IF Changed(outVal[n], new)
                                    THEN Append(@, Mod(n, new, nodeKind[n]))
                                    ELSE @]
    /\ UNCHANGED <<graph, nodeKind, failing, storeA, pending, running, responses>>
    /\ UNCHANGED notTrigger

\* Terminate and Emit; endpoint.py 20-34: dispatch returns the record
Respond ==
    /\ \E r \in running :
          /\ \/ cyc[r].state = "failed"
             \/ cyc[r].state = "running" /\ Ready(graph, cyc[r].executed) = {}
          /\ responses' = [responses EXCEPT ![r] = DispatchOf(RunOutcome(cyc[r]))]
          /\ cyc' = [cyc EXCEPT ![r].state =
                        IF cyc[r].state = "failed" THEN "aborted" ELSE "done"]
          /\ running' = running \ {r}
          /\ elog' = Append(elog, <<r, "emit">>)
    /\ UNCHANGED <<graph, nodeKind, failing, storeA, outVal, pending>>
    /\ UNCHANGED notTrigger

\* ------------------------------------------------------------------ sort
\* A DataPanel of two integer columns; a str or list `by`; a bool or list
\* `ascending`.
SortCols == {"a", "b"}
SortVals == {0, 1}
Panels ==
    UNION {[SortCols -> [1..n -> SortVals]] : n \in 0..MaxSortRows}
NRows(d) == Len(d["a"])
StrV(c) == [kind |-> "str", items |-> <<c>>]
ListV(items) == [kind |-> "list", items |-> items]
BoolV(b) == [kind |-> "bool", items |-> <<b>>]
ByOpts ==
    {StrV("a"), ListV(<<"a">>), ListV(<<"b">>), ListV(<<"a", "b">>),
     ListV(<<"b", "a">>)}
AscendingOpts ==
    {BoolV(b) : b \in BOOLEAN}
        \cup {ListV(l) : l \in UNION {[1..n -> BOOLEAN] : n \in 0..MaxAscending}}

\* sort.py 32: by = [by] if isinstance(by, str) else by
ByList(b) == b.items
\* sort.py 35-36: a bool ascending becomes [ascending] * len(by)
AscList(a, n) == IF a.kind = "bool" THEN [j \in 1..n |-> a.items[1]] ELSE a.items
\* a[::-1]
Reversed(sq) == [k \in 1..Len(sq) |-> sq[Len(sq) - k + 1]]
\* data[col].to_numpy() * (1 if a else -1)
Key(d, col, a) == [i \in 1..NRows(d) |-> d[col][i] * (IF a THEN 1 ELSE -1)]
\* faulty variant: the keys are built in the order of by
SortKeys_Forward(d, bys, ascs) ==
    [k \in 1..Min(Len(bys), Len(ascs)) |-> Key(d, bys[k], ascs[k])]

\* sort.py 45-47: one key per pair of zip(by[::-1], ascending[::-1])
SortKeys(d, bys, ascs) ==
    LET rb == Reversed(bys)
        ra == Reversed(ascs)
    IN [k \in 1..Min(Len(rb), Len(ra)) |-> Key(d, rb[k], ra[k])]

\* the orderings of the row numbers 0..n-1
Orderings(n) ==
    {p \in [1..n -> 0..(n - 1)] : \A i, j \in 1..n : p[i] = p[j] => i = j}
\* compares rows x and y on keys k, k-1, ..., 1: -1, 0 or 1
RECURSIVE KeyCmp(_, _, _, _)
KeyCmp(ks, k, x, y) ==
    IF k = 0 THEN 0
    ELSE IF ks[k][x + 1] < ks[k][y + 1] THEN 0 - 1
    ELSE IF ks[k][x + 1] > ks[k][y + 1] THEN 1
    ELSE KeyCmp(ks, k - 1, x, y)
\* np.lexsort(keys): the stable indirect sort, the last key the primary one
Lexsort(ks, n) ==
    CHOOSE p \in Orderings(n) :
        \A i, j \in 1..n : i < j =>
            \/ KeyCmp(ks, Len(ks), p[i], p[j]) < 0
            \/ KeyCmp(ks, Len(ks), p[i], p[j]) = 0 /\ p[i] < p[j]
\* the truth value of `ascending` where it is used as a flag
Truthy(a) == IF a.kind = "bool" THEN a.items[1] ELSE Len(a.items) > 0
\* data[by[0]].argsort(ascending=ascending, kind=kind): the orderings that
\* sort the column in the direction of the flag; quicksort is not stable
Argsort(d, col, a) ==
    {p \in Orderings(NRows(d)) :
        \A i, j \in 1..NRows(d) : i < j =>
            IF Truthy(a) THEN d[col][p[i] + 1] <= d[col][p[j] + 1]
            ELSE d[col][p[i] + 1] >= d[col][p[j] + 1]}
\* data.lz[sorted_indices]: the rows of the view
RowAt(d, i) == [c \in SortCols |-> d[c][i + 1]]
View(d, idx) == [k \in 1..Len(idx) |-> RowAt(d, idx[k])]

\* sort.py 32-43: the normalisation of by and ascending, the length check
SortCheck ==
    /\ spc = "call"
    /\ by_list' = ByList(by)
    /\ IF Len(ByList(by)) > 1
       THEN /\ asc_list' = AscList(ascending, Len(ByList(by)))
            /\ IF Len(asc_list') # Len(by_list')
               THEN spc' = "raised" /\ serr' = "ValueError"
               ELSE spc' = "multiple" /\ serr' = serr
       ELSE /\ asc_list' = ascending.items
            /\ spc' = "single" /\ serr' = serr
    /\ UNCHANGED <<sdata, by, ascending, keys, sorted_indices, sview>>
    /\ UNCHANGED notSort

\* sort.py 45-49: the keys and np.lexsort
SortMultiple ==
    /\ spc = "multiple"
    /\ keys' = SortKeys(sdata, by_list, asc_list)
    /\ sorted_indices' = Lexsort(keys', NRows(sdata))
    /\ spc' = "sorted"
    /\ UNCHANGED <<sdata, by, ascending, by_list, asc_list, sview, serr>>
    /\ UNCHANGED notSort

\* sort.py 52: the argsort of the single column
SortSingle ==
    /\ spc = "single"
    /\ sorted_indices' \in Argsort(sdata, by_list[1], ascending)
    /\ spc' = "sorted"
    /\ UNCHANGED <<sdata, by, ascending, by_list, asc_list, keys, sview, serr>>
    /\ UNCHANGED notSort

\* sort.py 54: return data.lz[sorted_indices]
SortReturn ==
    /\ spc = "sorted"
    /\ sview' = View(sdata, sorted_indices)
    /\ spc' = "done"
    /\ UNCHANGED <<sdata, by, ascending, by_list, asc_list, keys, sorted_indices,
                   serr>>
    /\ UNCHANGED notSort

\* ---------------------------------------------------------- ScalarColumn
ScalarClasses == {"ScalarColumn", "PandasScalarColumn", "ArrowScalarColumn"}
\* data by its type; a BlockView carries the type of its block
Data(ty, block) == [ty |-> ty, block |-> block]
DataTypes ==
    {Data(t, "") : t \in {"None", "ndarray", "Series", "list", "tuple", "pa.Array",
                          "Tensor", "str"}}
        \cup {Data("BlockView", b) : b \in {"PandasBlock", "ArrowBlock", "NumPyBlock"}}
BackendOpts == {"None", "arrow", "pandas", "numpy"}
Built(c) == [raised |-> "", instance |-> c]
Refused(e) == [raised |-> e, instance |-> ""]
\* abstract.py 32: backends = {"arrow": ..., "pandas": ...}
Backends(b) == IF b = "arrow" THEN "ArrowScalarColumn" ELSE "PandasScalarColumn"
\* abstract.py 42-55: the backend of the data's type
FromData(d) ==
    IF d.ty = "BlockView" /\ d.block = "PandasBlock" THEN Built("PandasScalarColumn")
    ELSE IF d.ty = "BlockView" /\ d.block = "ArrowBlock" THEN Built("ArrowScalarColumn")
    ELSE IF d.ty \in {"ndarray", "TensorType", "Series", "list", "tuple"}
    THEN Built("PandasScalarColumn")
    ELSE IF d.ty = "pa.Array" THEN Built("ArrowScalarColumn")
    ELSE Refused("ValueError")
\* faulty variant: the data's type is looked at before the backend name
New_DataFirst(c, d, b) ==
    IF c # "ScalarColumn" \/ d.ty = "None" THEN Built(c)
    ELSE IF FromData(d).raised = "" THEN FromData(d)
    ELSE IF b \in {"arrow", "pandas"} THEN Built(Backends(b))
    ELSE Refused("ValueError")

\* abstract.py 25-55: ScalarColumn.__new__
New(c, d, b) ==
    IF c # "ScalarColumn" \/ d.ty = "None" THEN Built(c)
    ELSE IF b # "None"
    THEN IF b \notin {"arrow", "pandas"} THEN Refused("ValueError")
         ELSE Built(Backends(b))
    ELSE FromData(d)

\* abstract.py 25-55: cls(data, backend)
ColNew ==
    /\ cpc = "call"
    /\ LET r == New(cls, cdata, backend) IN
       /\ instance' = r.instance
       /\ cerr' = r.raised
       /\ cpc' = IF r.raised = "" THEN "built" ELSE "raised"
    /\ dispatched' = IF cls # "ScalarColumn" \/ cdata.ty = "None" THEN dispatched
                     ELSE dispatched + 1
    /\ UNCHANGED <<cls, cdata, backend, aggs>>
    /\ UNCHANGED notCol

\* abstract.py 58-93: mean, median, ..., all go to the instance's own
\* _dispatch_aggregation_function; the abstract one raises
ColAggregate ==
    /\ cpc = "built"
    /\ Len(aggs) < MaxAggs
    /\ \E f \in {"mean", "sum"} :
          aggs' = Append(aggs, [fn |-> f, on |-> instance,
                                raised |-> IF instance = "ScalarColumn"
                                           THEN "NotImplementedError" ELSE ""])
    /\ UNCHANGED <<cls, cdata, backend, instance, cpc, cerr, dispatched>>
    /\ UNCHANGED notCol

\* ------------------------------------------------------------- Interface
\* The files an Interface writes: its route page and one wrapper per
\* component, both under its id. Absent is the content of a missing file.
InterfaceIds == {"chat", "gallery"}
ComponentNames == {"Chat", "Table"}
Absent == [kind |-> "absent", id |-> "", text |-> {}]
RoutePath(id) == <<"routes", id, "+page.svelte">>
WrapperPath(id, name) == <<"wrappers", id, name>>
Paths ==
    {RoutePath(id) : id \in InterfaceIds}
        \cup {WrapperPath(id, n) : id \in InterfaceIds, n \in ComponentNames}
NoFiles == [q \in Paths |-> Absent]
\* a component, by what to_svelte_wrapper and get_components return for it:
\* component name -> wrapper text
Wrapper(v) == [kind |-> "wrapper", id |-> "", text |-> {v}]
Components ==
    UNION {[names -> {Wrapper("v1"), Wrapper("v2")}] :
              names \in SUBSET ComponentNames \ {{}}}
\* interface.py 56-108: the page imports and maps the sorted component names
ToSvelte(id, component) ==
    [kind |-> "page", id |-> id, text |-> DOMAIN component]
\* interface.py 110-118
WriteComponentWrappers(fs, id, component) ==
    [q \in Paths |->
        IF \E n \in DOMAIN component : q = WrapperPath(id, n)
        THEN component[q[3]]
        ELSE fs[q]]
Wrote(e, fs) == [raised |-> e, files |-> fs]
\* interface.py 120-129
WriteSveltekitRoute(fs, id, component) ==
    IF fs[RoutePath(id)] # Absent THEN Wrote("ValueError", fs)
    ELSE Wrote("", [fs EXCEPT ![RoutePath(id)] = ToSvelte(id, component)])

\* interface.py 37-54: Interface(component, id=id)
IfaceNew ==
    /\ Len(made) < MaxMade
    /\ \E id \in InterfaceIds, component \in Components :
          LET w == WriteSveltekitRoute(
                       WriteComponentWrappers(files, id, component), id, component)
          IN /\ files' = w.files
             /\ made' = Append(made, [id |-> id, component |-> component,
                                      raised |-> w.raised, before |-> files,
                                      after |-> w.files])
    /\ UNCHANGED notIface

\* interface.py 134-142: _remove_svelte of an interface that was constructed
IfaceRemove ==
    /\ \E k \in 1..Len(made) :
          /\ made[k].raised = ""
          /\ files[RoutePath(made[k].id)] # Absent
          /\ \A n \in DOMAIN made[k].component :
                files[WrapperPath(made[k].id, n)] # Absent
          /\ files' = [q \in Paths |->
                IF q = RoutePath(made[k].id)
                   \/ \E n \in DOMAIN made[k].component : q = WrapperPath(made[k].id, n)
                THEN Absent ELSE files[q]]
    /\ UNCHANGED made
    /\ UNCHANGED notIface

\* ------------------------------------------------------- startup: ports
\* startup.py 76-80: socket(), bind((LOCALHOST_NAME, port)), close(): bind
\* raises OverflowError for a number that is no port, OSError for a port in use
TryBind(b, port) ==
    IF port < 0 \/ port > MaxPort THEN "OverflowError"
    ELSE IF port \in b THEN "OSError"
    ELSE "ok"
Searched(e, port, tried) == [raised |-> e, port |-> port, tried |-> tried]
\* startup.py 74-90: the loop over range(initial, final) from `port` on
RECURSIVE SearchFrom(_, _, _, _)
SearchFrom(b, port, fin, tried) ==
    IF port >= fin THEN Searched("OSError", 0, tried)
    ELSE IF TryBind(b, port) = "ok" THEN Searched("", port, Append(tried, port))
    ELSE IF TryBind(b, port) = "OSError"
    THEN SearchFrom(b, port + 1, fin, Append(tried, port))
    ELSE Searched(TryBind(b, port), 0, Append(tried, port))
\* startup.py 59-90
GetFirstAvailablePort(b, ini, fin) == SearchFrom(b, ini, fin, <<>>)

\* startup.py 59-90: get_first_available_port(initial, final)
PortSearch ==
    /\ ppc = "call"
    /\ found' = GetFirstAvailablePort(busy, initial, final)
    /\ ppc' = IF found'.raised = "" THEN "returned" ELSE "raised"
    /\ UNCHANGED <<busy, initial, final>>
    /\ UNCHANGED notPort

\* ------------------------------------------------ startup: start, cleanup
\* meerkat.interactive.server.INITIAL_PORT_VALUE, scaled
INITIAL_PORT_VALUE == 0
NoPort == [given |-> FALSE, v |-> 0]
Port(v) == [given |-> TRUE, v |-> v]
\* NetworkInfo; npm_process is the position in procs of the process it holds,
\* 0 for a process that this call of start did not launch
NoneInfo ==
    [kind |-> "None", api_server_port |-> 0, npm_server_port |-> 0,
     npm_process |-> 0, tunnels |-> 0]
NetworkInfo(api, npm) ==
    [kind |-> "NetworkInfo", api_server_port |-> api, npm_server_port |-> npm,
     npm_process |-> 0, tunnels |-> 0]
Proc(port, runs, status) == [port |-> port, runs |-> runs, status |-> status]
Line(label, host, text) == [label |-> label, host |-> host, text |-> text]
NoMatch == [found |-> FALSE, text |-> ""]
\* startup.py 229-232: re.search("Local:   http://(127.0.0.1|localhost):(.*)/",
\* network_info.npm_server_out): the first line that matches, its group 2
Matches(l) == l.label = "Local" /\ l.host \in {"127.0.0.1", "localhost"}
Search(outp) ==
    IF \E i \in 1..Len(outp) : Matches(outp[i])
    THEN LET i == CHOOSE i \in 1..Len(outp) :
                     /\ Matches(outp[i])
                     /\ \A j \in 1..(i - 1) : ~Matches(outp[j])
         IN [found |-> TRUE, text |-> outp[i].text]
    ELSE NoMatch
\* int(match.group(2))
IntOf(text) == CHOOSE i \in 0..9 : Digits[i + 1] = text
\* faulty variant: the port asked for is kept, whatever the output says
ServerPort_Asked(m, port) == port

\* startup.py 294: the port parsed from the output
ServerPort(m, port) == IntOf(m.text)

\* startup.py 124-147: the api port, the api server, the npm port
StartPorts ==
    /\ stpc = "call"
    /\ LET a == IF sargs.api_port.given
                THEN GetFirstAvailablePort(busy, sargs.api_port.v,
                                           sargs.api_port.v + TRY_NUM_PORTS)
                ELSE GetFirstAvailablePort(busy, INITIAL_PORT_VALUE,
                                           INITIAL_PORT_VALUE + TRY_NUM_PORTS)
           taken == busy \cup {a.port}
           n == IF sargs.npm_port.given
                THEN GetFirstAvailablePort(taken, sargs.npm_port.v,
                                           sargs.npm_port.v + 1)
                ELSE GetFirstAvailablePort(taken, a.port + 1,
                                           a.port + 1 + TRY_NUM_PORTS)
       IN IF a.raised # ""
          THEN /\ stpc' = "raised" /\ sterr' = a.raised
               /\ UNCHANGED <<api_port, npm_port>>
          ELSE IF n.raised # ""
          THEN /\ stpc' = "raised" /\ sterr' = n.raised
               /\ api_port' = a.port /\ npm_port' = npm_port
          ELSE /\ stpc' = "enter" /\ sterr' = sterr
               /\ api_port' = a.port /\ npm_port' = n.port
    /\ UNCHANGED <<sargs, entry, cwd, currdir, procs, npm_out, attempt, polls,
                   match, network_info, state_network_info>>
    /\ UNCHANGED notStart

\* startup.py 149-179: chdir to APP_DIR, network_info, the api tunnel, mkstemp
StartEnter ==
    /\ stpc = "enter"
    /\ currdir' = cwd
    /\ cwd' = "app"
    /\ npm_out' = <<>>
    /\ \E tunnel \in BOOLEAN :
          IF sargs.shareable /\ ~tunnel
          THEN /\ stpc' = "raised" /\ sterr' = "TunnelError"
               /\ network_info' = NetworkInfo(api_port, npm_port)
          ELSE /\ stpc' = IF sargs.dev THEN "spawn" ELSE "build"
               /\ sterr' = sterr
               /\ network_info' =
                     [NetworkInfo(api_port, npm_port) EXCEPT
                         !.tunnels = IF sargs.shareable THEN 1 ELSE 0]
    /\ UNCHANGED <<sargs, entry, api_port, npm_port, procs, attempt, polls, match,
                   state_network_info>>
    /\ UNCHANGED notStart

\* startup.py 188-212: npm run dev on port npm_port + i
StartSpawn ==
    /\ stpc = "spawn"
    /\ procs' = Append(procs, Proc(npm_port + attempt, "dev", "starting"))
    /\ network_info' = [network_info EXCEPT !.npm_process = Len(procs) + 1]
    /\ polls' = 0
    /\ stpc' = "poll"
    /\ UNCHANGED <<sargs, entry, cwd, currdir, api_port, npm_port, npm_out, attempt,
                   match, state_network_info, sterr>>
    /\ UNCHANGED notStart

\* startup.py 222-238: one iteration of the wait loop, and the end of the
\* attempt when it is the last one
StartPoll ==
    /\ stpc = "poll"
    /\ polls' = polls + 1
    /\ match' = Search(npm_out)
    /\ IF match'.found THEN stpc' = "finish" /\ attempt' = attempt
       ELSE IF polls' < MAX_WAIT THEN stpc' = "poll" /\ attempt' = attempt
       ELSE IF attempt + 1 < TRY_NUM_PORTS
       THEN stpc' = "spawn" /\ attempt' = attempt + 1
       ELSE stpc' = "finish" /\ attempt' = attempt
    /\ UNCHANGED <<sargs, entry, cwd, currdir, api_port, npm_port, procs, npm_out,
                   network_info, state_network_info, sterr>>
    /\ UNCHANGED notStart

\* a dev server comes up and writes its local URL to the output file
NpmServe ==
    /\ stpc \in {"spawn", "poll"}
    /\ \E k \in 1..Len(procs), host \in {"localhost", "127.0.0.1"} :
          /\ procs[k].runs = "dev" /\ procs[k].status = "starting"
          /\ procs' = [procs EXCEPT ![k].status = "serving"]
          /\ npm_out' = Append(npm_out, Line("Local", host, Str(procs[k].port)))
    /\ UNCHANGED <<sargs, entry, cwd, currdir, api_port, npm_port, attempt, polls,
                   match, network_info, state_network_info, stpc, sterr>>
    /\ UNCHANGED notStart

\* a dev server gives up (--strictPort and the port is taken) and exits
NpmDie ==
    /\ stpc \in {"spawn", "poll"}
    /\ \E k \in 1..Len(procs) :
          /\ procs[k].runs = "dev" /\ procs[k].status = "starting"
          /\ procs' = [procs EXCEPT ![k].status = "exited"]
          /\ npm_out' = Append(npm_out, Line("error", "", Str(procs[k].port)))
    /\ UNCHANGED <<sargs, entry, cwd, currdir, api_port, npm_port, attempt, polls,
                   match, network_info, state_network_info, stpc, sterr>>
    /\ UNCHANGED notStart

\* startup.py 240-282: npm run build, waited for; then the http.server
\* started from the build directory
StartBuild ==
    /\ stpc = "build"
    /\ procs' = procs \o <<Proc(0, "build", "exited"),
                           Proc(npm_port, "http.server", "serving")>>
    /\ network_info' = [network_info EXCEPT !.npm_process = Len(procs) + 2]
    /\ cwd' = "app"
    /\ stpc' = "finish"
    /\ UNCHANGED <<sargs, entry, currdir, api_port, npm_port, npm_out, attempt,
                   polls, match, state_network_info, sterr>>
    /\ UNCHANGED notStart

\* startup.py 284-314: the port, the npm tunnel, chdir back, state.network_info
StartFinish ==
    /\ stpc = "finish"
    /\ IF sargs.dev /\ ~match.found
       THEN /\ stpc' = "raised" /\ sterr' = "ValueError"
            /\ UNCHANGED <<cwd, network_info, state_network_info>>
       ELSE \E tunnel \in BOOLEAN :
               LET info == [network_info EXCEPT
                               !.npm_server_port =
                                   IF sargs.dev THEN ServerPort(match, npm_port)
                                   ELSE npm_port]
               IN IF sargs.shareable /\ ~tunnel
                  THEN /\ stpc' = "raised" /\ sterr' = "TunnelError"
                       /\ network_info' = info
                       /\ UNCHANGED <<cwd, state_network_info>>
                  ELSE /\ network_info' =
                             [info EXCEPT !.tunnels =
                                 IF sargs.shareable THEN 2 ELSE 0]
                       /\ cwd' = currdir
                       /\ state_network_info' = network_info'
                       /\ stpc' = "returned" /\ sterr' = sterr
    /\ UNCHANGED <<sargs, entry, currdir, api_port, npm_port, procs, npm_out,
                   attempt, polls, match>>
    /\ UNCHANGED notStart

\* startup.py 322-323: state.network_info.npm_process.terminate(), wait()
Terminated(ps, info) ==
    [k \in 1..Len(ps) |->
        IF k = info.npm_process /\ ps[k].status # "exited"
        THEN [ps[k] EXCEPT !.status = "terminated"]
        ELSE ps[k]]

\* startup.py 317-331: cleanup, run at exit; no interface is registered
Cleanup ==
    /\ stpc \in {"returned", "raised"}
    /\ procs' = IF state_network_info.kind # "None"
                THEN Terminated(procs, state_network_info)
                ELSE procs
    /\ stpc' = "cleaned"
    /\ UNCHANGED <<sargs, entry, cwd, currdir, api_port, npm_port, npm_out, attempt,
                   polls, match, network_info, state_network_info, sterr>>
    /\ UNCHANGED notStart

\* ------------------------------------------------------- specifications
LocalIdle ==
    /\ data = Column(0)
    /\ function = "double"
    /\ given = [inputs |-> NoneArg, outputs |-> NoneArg, output_type |-> NoneArg]
    /\ outputs = NoneArg
    /\ output_type = NoneArg
    /\ args = <<>>
    /\ kwargs = <<>>
    /\ return_format = "None"
    /\ first_row = NoneV
    /\ result = NoRes
    /\ pc = "idle"
    /\ err = ""
    /\ raisedAt = ""
    /\ calls = 0
    /\ batch_size = 1
    /\ batch_start = 0
    /\ requested = <<>>
    /\ batches = <<>>
    /\ out = <<>>

RayIdle ==
    /\ chain = <<>>
    /\ base = "ScalarColumn"
    /\ curr = 1
    /\ fns = <<>>
    /\ dataset = FALSE
    /\ rpc = "idle"
    /\ rerr = ""
    /\ pipe = <<>>
    /\ declared = Declared("", "")
    /\ container = ""
    /\ rout = <<>>

NeverFails == [node |-> "", exc |-> "", on |-> 0]
TrigIdle ==
    /\ graph = [n \in TNodes |-> {}]
    /\ nodeKind = [n \in TNodes |-> "store"]
    /\ failing = NeverFails
    /\ storeA = 0
    /\ outVal = [n \in TNodes |-> 0]
    /\ pending = <<>>
    /\ running = {}
    /\ cyc = [r \in Requests |-> NoCycle]
    /\ responses = [r \in Requests |-> NoResponse]
    /\ elog = <<>>

SortIdle ==
    /\ sdata = [c \in SortCols |-> <<>>]
    /\ by = StrV("a")
    /\ ascending = BoolV(TRUE)
    /\ by_list = <<>>
    /\ asc_list = <<>>
    /\ keys = <<>>
    /\ sorted_indices = <<>>
    /\ sview = <<>>
    /\ spc = "idle"
    /\ serr = ""

ColIdle ==
    /\ cls = "ScalarColumn"
    /\ cdata = Data("None", "")
    /\ backend = "None"
    /\ instance = ""
    /\ cpc = "idle"
    /\ cerr = ""
    /\ dispatched = 0
    /\ aggs = <<>>

IfaceIdle ==
    /\ files = NoFiles
    /\ made = <<>>

PortIdle ==
    /\ busy = {}
    /\ initial = 0
    /\ final = 0
    /\ found = Searched("", 0, <<>>)
    /\ ppc = "idle"

StartIdle ==
    /\ sargs = [shareable |-> FALSE, dev |-> TRUE, api_port |-> NoPort,
                npm_port |-> NoPort]
    /\ entry = [cwd |-> "home", network_info |-> NoneInfo]
    /\ cwd = "home"
    /\ currdir = ""
    /\ api_port = 0
    /\ npm_port = 0
    /\ procs = <<>>
    /\ npm_out = <<>>
    /\ attempt = 0
    /\ polls = 0
    /\ match = NoMatch
    /\ network_info = NoneInfo
    /\ state_network_info = NoneInfo
    /\ stpc = "idle"
    /\ sterr = ""

AppIdle ==
    /\ ColIdle
    /\ IfaceIdle
    /\ PortIdle
    /\ StartIdle
CoreIdle ==
    /\ LocalIdle
    /\ RayIdle
    /\ TrigIdle
    /\ SortIdle

\* map(data, function, inputs, outputs, output_type, batch_size) with
\* use_ray=False: defer, then the local materialization
Init ==
    /\ data \in DataOpts
    /\ function \in Fns
    /\ given \in {[inputs |-> i, outputs |-> o, output_type |-> t] :
                    i \in InputsOpts(data), o \in OutputsOpts, t \in OutputTypeOpts}
    /\ outputs = given.outputs
    /\ output_type = given.output_type
    /\ args = <<>>
    /\ kwargs = <<>>
    /\ return_format = "None"
    /\ first_row = NoneV
    /\ result = NoRes
    /\ pc = "prepare"
    /\ err = ""
    /\ raisedAt = ""
    /\ calls = 0
    /\ batch_size = 1
    /\ batch_start = 0
    /\ requested = <<>>
    /\ batches = <<>>
    /\ out = <<>>
    /\ RayIdle
    /\ TrigIdle
    /\ SortIdle
    /\ AppIdle

Next ==
    \/ Prepare
    \/ Probe
    \/ Infer
    \/ Build
    \/ MatBegin
    \/ MatBatch
    \/ MatEnd

Spec == Init /\ [][Next]_vars

\* _materialize(data, use_ray=True) on a pipeline of DeferredColumns
InitRay ==
    /\ LocalIdle
    /\ TrigIdle
    /\ SortIdle
    /\ AppIdle
    /\ chain \in Chains(MaxChain)
    /\ base \in {"ScalarColumn", "Other"}
    /\ curr = 1
    /\ fns = <<>>
    /\ dataset = FALSE
    /\ rpc = "walk"
    /\ rerr = ""
    /\ pipe = <<>>
    /\ declared = Declared("", "")
    /\ container = ""
    /\ rout = <<>>

NextRay ==
    \/ RayWalk
    \/ RayDataset
    \/ RayPipe
    \/ RayCollect

SpecRay == InitRay /\ [][NextRay]_vars

\* dispatch requests on a page whose endpoint sets Store A
InitTrigger ==
    /\ LocalIdle
    /\ RayIdle
    /\ SortIdle
    /\ AppIdle
    /\ graph \in Graphs
    /\ nodeKind \in [TNodes -> {"frame", "store", "backend"}]
    /\ failing \in {NeverFails}
            \cup [node : TNodes, exc : {"TriggerError", "StorageError"}, on : Vals]
    /\ storeA = 0
    /\ outVal = Settled(graph, 0)
    /\ pending = <<>>
    /\ running = {}
    /\ cyc = [r \in Requests |-> NoCycle]
    /\ responses = [r \in Requests |-> NoResponse]
    /\ elog = <<>>

NextTrigger ==
    \/ Arrive
    \/ StartCycle
    \/ ExecNode
    \/ Respond

SpecTrigger == InitTrigger /\ [][NextTrigger]_vars

\* sort(data, by, ascending) on a DataPanel
InitSort ==
    /\ LocalIdle
    /\ RayIdle
    /\ TrigIdle
    /\ AppIdle
    /\ sdata \in Panels
    /\ by \in ByOpts
    /\ ascending \in AscendingOpts
    /\ by_list = <<>>
    /\ asc_list = <<>>
    /\ keys = <<>>
    /\ sorted_indices = <<>>
    /\ sview = <<>>
    /\ spc = "call"
    /\ serr = ""

NextSort ==
    \/ SortCheck
    \/ SortMultiple
    \/ SortSingle
    \/ SortReturn

SpecSort == InitSort /\ [][NextSort]_vars

\* ScalarColumn(data, backend), or a subclass called directly
InitScalar ==
    /\ CoreIdle
    /\ IfaceIdle
    /\ PortIdle
    /\ StartIdle
    /\ cls \in ScalarClasses
    /\ cdata \in DataTypes
    /\ backend \in BackendOpts
    /\ instance = ""
    /\ cpc = "call"
    /\ cerr = ""
    /\ dispatched = 0
    /\ aggs = <<>>

NextScalar ==
    \/ ColNew
    \/ ColAggregate

SpecScalar == InitScalar /\ [][NextScalar]_vars

\* get_first_available_port(initial, final) with some ports in use
InitPort ==
    /\ CoreIdle
    /\ ColIdle
    /\ IfaceIdle
    /\ StartIdle
    /\ busy \in SUBSET (0..MaxPort)
    /\ initial \in (0 - 1)..(MaxPort + 1)
    /\ final \in 0..(MaxPort + 2)
    /\ found = Searched("", 0, <<>>)
    /\ ppc = "call"

NextPort ==
    \/ PortSearch

SpecPort == InitPort /\ [][NextPort]_vars

\* start(shareable, api_port, npm_port, dev), then cleanup at exit
InitStart ==
    /\ CoreIdle
    /\ ColIdle
    /\ IfaceIdle
    /\ busy \in SUBSET (0..MaxPort)
    /\ initial = 0
    /\ final = 0
    /\ found = Searched("", 0, <<>>)
    /\ ppc = "idle"
    /\ sargs \in [shareable : BOOLEAN, dev : BOOLEAN,
                   api_port : {NoPort, Port(MaxPort)},
                   npm_port : {NoPort, Port(1)}]
    /\ state_network_info \in {NoneInfo, NetworkInfo(0, 1)}
    /\ entry = [cwd |-> "home", network_info |-> state_network_info]
    /\ cwd = "home"
    /\ currdir = ""
    /\ api_port = 0
    /\ npm_port = 0
    /\ procs = <<>>
    /\ npm_out = <<>>
    /\ attempt = 0
    /\ polls = 0
    /\ match = NoMatch
    /\ network_info = NoneInfo
    /\ stpc = "call"
    /\ sterr = ""

NextStart ==
    \/ StartPorts
    \/ StartEnter
    \/ StartSpawn
    \/ StartPoll
    \/ NpmServe
    \/ NpmDie
    \/ StartBuild
    \/ StartFinish
    \/ Cleanup

SpecStart == InitStart /\ [][NextStart]_vars

\* Interfaces constructed and removed in an app directory with no routes yet
InitInterface ==
    /\ CoreIdle
    /\ ColIdle
    /\ PortIdle
    /\ StartIdle
    /\ files = NoFiles
    /\ made = <<>>

NextInterface ==
    \/ IfaceNew
    \/ IfaceRemove

SpecInterface == InitInterface /\ [][NextInterface]_vars

\* =============================================================== claims
DeferDone == pc \in {"returned", "batching", "materialized"}
             \/ (pc = "raised" /\ raisedAt = "materialize")
AfterPrepare == pc # "prepare"
AfterBuild == pc \in {"returned", "batching", "materialized", "raised"}
              /\ raisedAt \notin {"prepare", "probe"}
\* the source column whose value the caller's binding gives parameter j of the
\* function ("" when the parameter is left to its default)
SourceCol(fn, j) ==
    LET name == Params(fn)[j].name
        inp == given.inputs IN
    CASE data.kind = "column" -> IF j = 1 THEN "x" ELSE ""
      [] inp.kind = "sequence" -> IF j <= Len(inp.items) THEN inp.items[j].v ELSE ""
      [] inp.kind = "mapping" ->
            IF \E m \in 1..Len(inp.items) : inp.items[m].v = name
            THEN inp.items[CHOOSE m \in 1..Len(inp.items) : inp.items[m].v = name].k
            ELSE ""
      [] OTHER -> IF name \in data.cols THEN name ELSE ""
\* the function called directly on the values of source row i
Direct(fn, i) ==
    Body(fn, [name \in ParamNames(fn) |->
                LET j == CHOOSE m \in 1..Len(Params(fn)) : Params(fn)[m].name = name
                IN IF SourceCol(fn, j) = "" THEN Params(fn)[j].default
                   ELSE ColVal(SourceCol(fn, j), i)])
Matched(fn, d) == {Params(fn)[j].name : j \in 1..Len(Params(fn))} \cap d.cols
Required(fn) == {Params(fn)[j].name :
                    j \in {i \in 1..Len(Params(fn)) : ~Params(fn)[i].hasDefault}}

\* C1: defer on a table with inputs=None binds every parameter that has a
\* same-named column to that column as a keyword input, leaves a parameter
\* with a default and no same-named column unbound, and raises ValueError
\* (returning nothing) when a parameter without a default has no same-named
\* column.
C1_SignatureBinding ==
    (data.kind = "frame" /\ given.inputs.kind = "none" /\ AfterPrepare) =>
        IF Required(function) \subseteq data.cols
        THEN /\ raisedAt # "prepare"
             /\ args = <<>>
             /\ Keys(kwargs) = Matched(function, data)
             /\ \A j \in 1..Len(kwargs) : kwargs[j].v = kwargs[j].k
        ELSE /\ pc = "raised"
             /\ raisedAt = "prepare"
             /\ err = "ValueError"
             /\ result = NoRes
             /\ calls = 0
C1_Witness ==
    /\ data.kind = "frame" /\ given.inputs.kind = "none"
    /\ function = "add" /\ "y" \notin data.cols
    /\ pc = "raised" /\ err = "ValueError"

C3_SingleOverride ==
    (given.outputs.kind = "single" /\ function \in {"stats", "pair"}) =>
        /\ result.kind \in {"nothing", "column"}
        /\ (AfterBuild /\ data.n > 0 /\ given.output_type.kind \in {"none", "type"})
              => DeferDone
        /\ DeferDone =>
              /\ result.kind = "column"
              /\ Len(result.cols) = 1
              /\ result.cols[1].sel = NoSel
        /\ pc = "materialized" =>
              \A i \in 0..(data.n - 1) : out[i + 1] = Direct(function, i)
C3_Witness ==
    /\ given.outputs.kind = "single" /\ function = "stats"
    /\ data.n = 2 /\ pc = "materialized"
    /\ out[2].kind = "dict"

\* C4: defer on data with zero rows, with output_type=None and outputs=None,
\* raises ValueError; it never returns a column with an unresolved output type.
C4_EmptyNeedsOutputType ==
    (data.n = 0 /\ given.outputs.kind = "none" /\ given.output_type.kind = "none") =>
        /\ pc \in {"prepare", "probe", "infer", "finish", "raised"}
        /\ result = NoRes
        /\ pc = "raised" => err = "ValueError"
C4_Witness ==
    /\ data.n = 0 /\ given.outputs.kind = "none" /\ given.output_type.kind = "none"
    /\ pc = "raised" /\ raisedAt = "finish" /\ err = "ValueError"

EmptyUninferable ==
    /\ data.n = 0
    /\ given.outputs.kind \in {"none", "single"}
    /\ given.output_type.kind = "none"

\* C5 (as stated): on an empty source whose output type cannot be inferred,
\* defer returns a deferred handle without raising, and the error appears only
\* when that handle is materialized.
C5_Original ==
    (EmptyUninferable /\ AfterBuild) =>
        /\ result.kind = "column"
        /\ pc = "raised" => raisedAt = "materialize"

\* C5 (amended): on an empty source whose output type cannot be inferred, the
\* failure is raised by defer itself, at construction: defer returns no handle,
\* the function is never invoked, and materialization is never entered.
C5_RaisedAtConstruction ==
    EmptyUninferable =>
        /\ pc \notin {"returned", "batching", "materialized"}
        /\ result = NoRes
        /\ calls = 0
        /\ requested = <<>>
        /\ pc = "raised" => (raisedAt \in {"prepare", "finish"} /\ err = "ValueError")
C5_Witness ==
    /\ EmptyUninferable /\ given.outputs.kind = "single"
    /\ pc = "raised" /\ raisedAt = "finish" /\ calls = 0

\* the type a produced column must have: the given one, else the runtime type
\* of the corresponding probed value
ProbedType(sel) ==
    CASE sel.tag = "none" -> TypeOf(first_row)
      [] sel.tag = "key" -> TypeOf(Get(first_row.items, sel.key))
      [] OTHER -> TypeOf(first_row.items[sel.pos + 1].v)
GivenType(col, j) ==
    CASE given.output_type.kind = "type" -> given.output_type.t
      [] given.output_type.kind = "mapping" -> Get(given.output_type.items, col.name)
      [] OTHER -> given.output_type.items[j].v

\* C6: every produced column has the runtime type of the corresponding probed
\* value unless output_type is given, a given output_type is applied keyed or
\* ordered as outputs, and a missing or mismatched output_type ends in
\* ValueError and in no other exception, zero-row data included.
C6_TypesOrValueError ==
    /\ (pc = "raised" /\ raisedAt = "finish") => err = "ValueError"
    /\ (DeferDone /\ result.kind \in {"column", "frame"}) =>
          \A j \in 1..Len(result.cols) :
              result.cols[j].otype =
                  IF given.output_type.kind = "none"
                  THEN ProbedType(result.cols[j].sel)
                  ELSE GivenType(result.cols[j], j)

\* C7 (as stated): on every path of defer that ends in a configuration error
\* the user function has been invoked zero times, the row-0 probe included.
C7_Original ==
    (pc = "raised" /\ raisedAt \in {"prepare", "finish"} /\ err = "ValueError")
        => calls = 0

\* C7 (amended): an error in inputs (bad shape, parameter with no matching
\* column) is raised before any row is touched; an error in the shape of
\* output_type is raised after the row-0 probe and before any other row is
\* touched: the function has run once on non-empty data, never on empty data.
C7_ErrorsAroundProbe ==
    /\ (pc = "raised" /\ raisedAt = "prepare") =>
          (calls = 0 /\ first_row = NoneV /\ err = "ValueError")
    /\ (pc = "raised" /\ raisedAt = "finish") =>
          /\ calls = (IF data.n > 0 THEN 1 ELSE 0)
          /\ requested = <<>>
C7_Witness ==
    /\ pc = "raised" /\ raisedAt = "finish" /\ err = "ValueError"
    /\ data.n = 3 /\ calls = 1

\* C8: row correspondence: the locally materialized result of map has exactly
\* as many rows as the source, and its row i equals the function applied to
\* the values of source row i (column [1,2,3] with x*2 gives [2,4,6]; frame
\* x=[1,2,3], y=[10,20,30] with x+y gives [11,22,33]).
C8_RowCorrespondence ==
    pc = "materialized" =>
        /\ Len(out) = data.n
        /\ \A i \in 0..(data.n - 1) :
              /\ out[i + 1] = RowOut(result, Direct(function, i))
              /\ (function = "double" /\ result.kind = "column")
                    => out[i + 1].v = 2 * (i + 1)
              /\ (function = "add" /\ result.kind = "column")
                    => out[i + 1].v = 11 * (i + 1)
              /\ (function = "addz" /\ result.kind = "column"
                      /\ given.inputs.kind \in {"none", "mapping"})
                    => out[i + 1].v = 101 + i
C8_Witness ==
    /\ pc = "materialized" /\ function = "add" /\ data.kind = "frame"
    /\ given.inputs.kind = "none" /\ data.n = 3
    /\ out = <<Plain("int", 11), Plain("int", 22), Plain("int", 33)>>

\* C9: batch-size invariance: for every batch_size >= 1 the slices requested
\* are [0,b), [b,2b), ... in ascending order, they cover every row index of
\* [0, len) exactly once, and the concatenated result does not depend on the
\* batch size.
C9_BatchInvariance ==
    /\ pc \in {"batching", "materialized"} =>
          /\ \A j \in 1..Len(requested) :
                requested[j] = <<(j - 1) * batch_size, j * batch_size>>
          /\ batch_start = Len(requested) * batch_size
    /\ pc = "materialized" =>
          /\ \A i \in 0..(data.n - 1) :
                Cardinality({j \in 1..Len(requested) :
                    requested[j][1] <= i /\ i < requested[j][2]}) = 1
          /\ \A j \in 1..Len(requested) : requested[j][1] < data.n
          /\ out = [i \in 1..data.n |->
                      RowOut(result, RowCall(function, args, kwargs, i - 1))]
C9_Witness ==
    /\ pc = "materialized" /\ data.n = 3 /\ batch_size = 2
    /\ requested = <<<<0, 2>>, <<2, 4>>>>
    /\ Len(out) = 3

\* C10: with use_ray, a pipeline in which a deferred column on the backward
\* walk is bound to more than one input column (two positional, two keyword,
\* or one positional plus one keyword) ends in ValueError before any dataset
\* is built; the walk never goes on with only one of the inputs.
C10_MultiInputRejected ==
    \A j \in 1..Len(chain) :
        (j <= Len(fns) /\ chain[j].nargs + chain[j].nkwargs > 1) =>
            /\ curr = j
            /\ ~dataset
            /\ rpc = "raised"
            /\ rerr = "ValueError"

Linear == /\ Len(chain) >= 1
          /\ \A j \in 1..Len(chain) : chain[j].nargs + chain[j].nkwargs = 1
          /\ base = "ScalarColumn"
\* the functions of the chain in the forward order f1, ..., fn
ForwardFns == [k \in 1..Len(chain) |-> chain[Len(chain) - k + 1].fn]
RECURSIVE Count(_, _)
Count(sq, x) ==
    IF sq = <<>> THEN 0
    ELSE (IF Head(sq) = x THEN 1 ELSE 0) + Count(Tail(sq), x)

\* C11: with use_ray, for a linear chain base -> f1 -> ... -> fn the backward
\* walk ends at exactly one base column, and the pipeline applies to each base
\* value first the extraction of the base value, then f1, ..., fn in that
\* forward order, each function of the chain exactly once per row.
C11_ForwardReplay ==
    Linear =>
        /\ (rpc = "raised" => declared.output_type # "")
        /\ rpc = "pipeline" => (curr = Len(chain) + 1 /\ dataset)
        /\ ((rpc = "pipeline" /\ Len(pipe) = Len(fns)) \/ rpc = "done") =>
              /\ pipe = <<"extract">> \o ForwardFns
              /\ Count(pipe, "extract") = 1
        /\ rpc = "done" =>
              /\ Len(rout) = MaxRows
              /\ \A i \in 1..Len(rout) :
                    rout[i] = RayApplyAll(ForwardFns, RayVal(ColVal("x", i - 1)))
C11_Witness ==
    /\ Linear /\ rpc = "done"
    /\ Len(chain) = 2 /\ chain[1].fn = "g" /\ chain[2].fn = "f"
    /\ rout[1] = RayVal(4)

\* C12: the partitions are reassembled into the container of the column's
\* declared output_type: an array stack for the NumPy-tensor and object types,
\* a tensor stack for the torch type, a scalar sequence for the scalar column
\* type; ValueError "Unsupported output type" only when the declared
\* output_type is none of these.
C12_ContainerOfOutputType ==
    (Linear /\ declared.output_type # "") =>
        CASE declared.output_type \in {"NumPyTensorColumn", "ObjectColumn"} ->
                rpc = "done" /\ container = "np.stack"
          [] declared.output_type = "TorchTensorColumn" ->
                rpc = "done" /\ container = "torch.stack"
          [] declared.output_type = "ScalarColumn" ->
                rpc = "done" /\ container = "list"
          [] OTHER -> rpc = "raised" /\ rerr = "ValueError"

\* ---- dispatch and the trigger cycle
Responded == {r \in Requests : responses[r].state # "none"}
Ended(r) == cyc[r].state \in {"done", "aborted"}
\* the positions of sq whose entry satisfies Keep(_)
Kept(sq, Keep(_)) == {i \in 1..Len(sq) : Keep(sq[i])}
Pos(sq, x) == CHOOSE i \in 1..Len(sq) : sq[i] = x

\* C13: a TriggerError raised by running the endpoint never leaves dispatch:
\* dispatch returns the record with result null, an empty modifications list
\* and the failure's message as error; when the run succeeds the record has
\* error null and the endpoint's result as result.
C13_TriggerErrorAbsorbed ==
    \A r \in Requests :
        /\ (cyc[r].state = "aborted" /\ failing.exc = "TriggerError") =>
              responses[r] = [state |-> "returned", result |-> NoneV,
                              modifications |-> <<>>, error |-> failing.node]
        /\ cyc[r].state = "done" =>
              /\ responses[r].state = "returned"
              /\ responses[r].error = NoError
              /\ responses[r].result = Plain("int", cyc[r].value)
C13_Witness ==
    \E r, q \in Requests :
        /\ cyc[r].state = "aborted" /\ failing.exc = "TriggerError"
        /\ Len(cyc[r].mods) = 1
        /\ responses[r].error = "N2"
        /\ cyc[q].state = "done" /\ responses[q].result = Plain("int", 1)
        /\ Len(responses[q].modifications) = 2

Diamond == graph = [n \in TNodes |-> IF n = "N1" THEN {"A"} ELSE {"A", "N1"}]
NoDup(sq) == \A i, j \in 1..Len(sq) : sq[i] = sq[j] => i = j
IsPrefix(p, sq) == Len(p) <= Len(sq) /\ \A i \in 1..Len(p) : p[i] = sq[i]
ModOf(r, n) == {i \in 1..Len(cyc[r].mods) : cyc[r].mods[i].target = n}

\* C15: with A read by N1 and N2 and N2 reading N1's output, a set on A runs
\* N1 before N2, each exactly once in the cycle, and records N1's Modification
\* before N2's; the cycle terminates: once both have run no node is left to
\* run and the cycle can only emit.
C15_TriggerOrdering ==
    \A r \in Requests :
        /\ NoDup(cyc[r].executed)
        /\ \A i \in 1..Len(cyc[r].executed) :
              graph[cyc[r].executed[i]] \cap Affected(graph)
                  \subseteq {cyc[r].executed[j] : j \in 1..(i - 1)}
        /\ Diamond =>
              /\ IsPrefix(cyc[r].executed, <<"N1", "N2">>)
              /\ (cyc[r].state = "done" => cyc[r].executed = <<"N1", "N2">>)
              /\ \A i \in ModOf(r, "N1"), j \in ModOf(r, "N2") : i < j
              /\ (cyc[r].state = "running" /\ cyc[r].executed = <<"N1", "N2">>)
                    => Ready(graph, cyc[r].executed) = {}
C15_Witness ==
    \E r \in Requests :
        /\ Diamond /\ cyc[r].state = "done"
        /\ cyc[r].executed = <<"N1", "N2">>
        /\ Len(cyc[r].mods) = 2
        /\ cyc[r].mods[1].target = "N1" /\ cyc[r].mods[2].target = "N2"
        /\ cyc[r].mods[1].value = 2 /\ cyc[r].mods[2].value = 5

\* no cycle has started after cycle r
Latest(r) == \A q \in Requests : q > r => cyc[q].state \in {"none", "queued"}

\* C16: when N1 raises a trigger failure in a cycle started by a set on A, no
\* node ordered after N1 executes in that cycle, the cycle's record has a
\* non-null error and an empty modification list, and A keeps the value that
\* the set applied.
C16_FailureIsolation ==
    \A r \in Requests :
        (/\ "N1" \in Range(cyc[r].executed)
         /\ Fails("N1", cyc[r].value) /\ failing.exc = "TriggerError") =>
            /\ cyc[r].executed[Len(cyc[r].executed)] = "N1"
            /\ "N1" \in graph["N2"] => "N2" \notin Range(cyc[r].executed)
            /\ responses[r].state # "none" =>
                  /\ responses[r].state = "returned"
                  /\ responses[r].error # NoError
                  /\ responses[r].modifications = <<>>
            /\ Latest(r) => storeA = cyc[r].value
C16_Witness ==
    \E r \in Requests :
        /\ Diamond /\ cyc[r].state = "aborted"
        /\ failing.node = "N1" /\ failing.exc = "TriggerError"
        /\ cyc[r].executed = <<"N1">>
        /\ cyc[r].before[1] = 0 /\ storeA = 1
        /\ responses[r].error = "N1"

\* C17: a set to the value the Store already holds still runs the cycle, each
\* dependent node once, and records nothing when every output keeps its
\* value; a Modification is recorded for an output only if its value changed.
C17_NoOpSet ==
    \A r \in Requests :
        /\ (cyc[r].state = "done" /\ cyc[r].value = cyc[r].before[1]) =>
              /\ Range(cyc[r].executed) = Affected(graph)
              /\ NoDup(cyc[r].executed)
              /\ (Latest(r) /\ outVal = cyc[r].before[2]) => cyc[r].mods = <<>>
        /\ cyc[r].state # "none" /\ cyc[r].state # "queued" =>
              /\ \A i \in 1..Len(cyc[r].mods) :
                    cyc[r].mods[i].value # cyc[r].before[2][cyc[r].mods[i].target]
              /\ \A n \in TNodes : Cardinality(ModOf(r, n)) <= 1
C17_Witness ==
    \E r \in Requests :
        /\ r > 1 /\ cyc[r].state = "done"
        /\ cyc[r].value = 1 /\ cyc[r].before[1] = 1
        /\ Len(cyc[r].executed) = 2
        /\ cyc[r].mods = <<>>
        /\ Len(cyc[r - 1].mods) = 2

Index(e) == CHOOSE i \in 1..Len(elog) : elog[i] = e
Logged(e) == \E i \in 1..Len(elog) : elog[i] = e

\* C18: cycles on the graph are serialized: never two cycles executing at
\* once, a set that arrives while a cycle is in flight starts after that
\* cycle's Emit, and the steps of two cycles are never interleaved.
C18_Serialized ==
    /\ Cardinality(running) <= 1
    /\ \A r \in Requests :
          (cyc[r].during # 0 /\ Logged(<<r, "start">>)) =>
              /\ Logged(<<cyc[r].during, "emit">>)
              /\ Index(<<cyc[r].during, "emit">>) < Index(<<r, "start">>)
    /\ \A i, j, k \in 1..Len(elog) :
          (i < j /\ j < k /\ elog[i][1] = elog[k][1]) => elog[j][1] = elog[i][1]
C18_Witness ==
    \E r \in Requests :
        /\ cyc[r].during # 0
        /\ cyc[r].state = "done"
        /\ Len(cyc[r].mods) > 0 /\ Len(cyc[cyc[r].during].mods) > 0

\* ---- sort
\* C19: sort raises the length-mismatch ValueError whenever ascending is a
\* list whose length differs from the number of columns named in by, for one
\* by column (a string or a one-element list) as for several.
C19_LengthMismatchRaises ==
    (/\ spc \notin {"idle", "call"}
     /\ ascending.kind = "list"
     /\ Len(ascending.items) # Len(by.items)) =>
        spc = "raised" /\ serr = "ValueError"

\* row x comes before row y, or ties with it, on the columns bys[k..], column
\* bys[j] ascending iff dirs[j]
RECURSIVE LexLeq(_, _, _, _, _)
LexLeq(bys, dirs, k, x, y) ==
    IF k > Len(bys) THEN TRUE
    ELSE IF x[bys[k]] = y[bys[k]] THEN LexLeq(bys, dirs, k + 1, x, y)
    ELSE IF dirs[k] THEN x[bys[k]] < y[bys[k]] ELSE x[bys[k]] > y[bys[k]]
\* the direction of each by column as the caller gave it
Directions ==
    [j \in 1..Len(by.items) |->
        IF ascending.kind = "bool" THEN ascending.items[1] ELSE ascending.items[j]]
C20_Sorted ==
    (spc = "done" /\ Len(by.items) >= 2) =>
        /\ sorted_indices \in Orderings(NRows(sdata))
        /\ Len(sview) = NRows(sdata)
        /\ \A i \in 1..Len(sview) : sview[i] = RowAt(sdata, sorted_indices[i])
        /\ \A i, j \in 1..Len(sview) :
              i < j => LexLeq(by.items, Directions, 1, sview[i], sview[j])

C23_OthersPropagate ==
    \A r \in Requests :
        /\ (cyc[r].state = "aborted" /\ failing.exc # "TriggerError") =>
              /\ responses[r].state = "raised"
              /\ responses[r].error = failing.exc
              /\ responses[r].result = NoneV /\ responses[r].modifications = <<>>
        /\ responses[r].state = "raised" =>
              /\ cyc[r].state = "aborted"
              /\ failing.exc # "TriggerError"
C23_Witness ==
    \E r, q \in Requests :
        /\ cyc[r].state = "aborted" /\ failing.exc = "StorageError"
        /\ responses[r].state = "raised" /\ responses[r].error = "StorageError"
        /\ Len(cyc[r].mods) = 1
        /\ responses[q].state = "returned" /\ responses[q].error = NoError

\* ---- ScalarColumn construction
Constructed == cpc \in {"built", "raised"}
\* the construction is one that selects a backend
Dispatching == cls = "ScalarColumn" /\ cdata.ty # "None"

\* C22: the construction of a ScalarColumn selects the backend once, from its
\* arguments: a backend name wins over the data's type and must be "arrow" or
\* "pandas", else ValueError; without one a view of a pandas or arrow block
\* takes the backend of the block, an array, series, list or tuple takes
\* pandas, an arrow array takes arrow, any other data raises ValueError; a
\* subclass called directly, or data None, selects nothing; the aggregation
\* calls made afterwards go to the class selected at construction.
C22_BackendResolvedOnce ==
    /\ Constructed =>
          /\ dispatched = (IF Dispatching THEN 1 ELSE 0)
          /\ ~Dispatching => (cpc = "built" /\ instance = cls)
          /\ (Dispatching /\ backend = "arrow") =>
                (cpc = "built" /\ instance = "ArrowScalarColumn")
          /\ (Dispatching /\ backend = "pandas") =>
                (cpc = "built" /\ instance = "PandasScalarColumn")
          /\ (Dispatching /\ backend \notin {"None", "arrow", "pandas"}) =>
                (cpc = "raised" /\ cerr = "ValueError" /\ instance = "")
          /\ (Dispatching /\ backend = "None") =>
                CASE cdata.ty = "BlockView" /\ cdata.block = "PandasBlock" ->
                        cpc = "built" /\ instance = "PandasScalarColumn"
                  [] cdata.ty = "BlockView" /\ cdata.block = "ArrowBlock" ->
                        cpc = "built" /\ instance = "ArrowScalarColumn"
                  [] cdata.ty \in {"ndarray", "Series", "list", "tuple"} ->
                        cpc = "built" /\ instance = "PandasScalarColumn"
                  [] cdata.ty = "pa.Array" ->
                        cpc = "built" /\ instance = "ArrowScalarColumn"
                  [] OTHER -> cpc = "raised" /\ cerr = "ValueError"
    /\ \A i \in 1..Len(aggs) : aggs[i].on = instance
C22_Witness ==
    /\ cls = "ScalarColumn" /\ cdata = Data("list", "") /\ backend = "arrow"
    /\ cpc = "built" /\ instance = "ArrowScalarColumn"
    /\ dispatched = 1 /\ Len(aggs) = MaxAggs

\* ---- Interface construction
Under(id) == {RoutePath(id)} \cup {WrapperPath(id, n) : n \in ComponentNames}

\* C24: constructing an Interface whose id already has a route file raises
\* ValueError and leaves the files of the existing interface as they were:
\* its route page and its component wrappers under that id keep their content.
C24_FailedConstructionKeepsFiles ==
    \A k \in 1..Len(made) :
        /\ made[k].before[RoutePath(made[k].id)] # Absent
              => made[k].raised = "ValueError"
        /\ made[k].raised = "ValueError" =>
              \A q \in Under(made[k].id) :
                  made[k].before[q] # Absent => made[k].after[q] = made[k].before[q]

\* ---- startup: get_first_available_port
\* the ports of [initial, final) on which a bind succeeds
Bindable == {q \in initial..(final - 1) : TryBind(busy, q) = "ok"}

\* C21: get_first_available_port tries the ports of [initial, final) in
\* ascending order and returns the smallest one on which a bind succeeds; it
\* raises OSError exactly when no port of the range can be bound, an empty
\* range included, and never returns a port outside [initial, final).
C21_FirstAvailablePort ==
    ppc \in {"returned", "raised"} =>
        /\ \A i \in 1..Len(found.tried) : found.tried[i] = initial + i - 1
        /\ Bindable # {} =>
              /\ ppc = "returned"
              /\ found.port \in Bindable
              /\ \A q \in Bindable : found.port <= q
        /\ Bindable = {} => (ppc = "raised" /\ found.raised = "OSError")
        /\ ppc = "returned" => found.port \in initial..(final - 1)

\* ---- startup: start and cleanup
StartOver == stpc \in {"returned", "raised", "cleaned"}

\* C25: in dev mode start tries the dev server on ports npm_port, npm_port+1,
\* ... for at most TRY_NUM_PORTS attempts and polls the output at most
\* MAX_WAIT times per attempt; it launches nothing after the poll that found
\* a local URL and stores in state.network_info the port parsed from the
\* output; when no poll found one it raises ValueError and state.network_info
\* is what it was at the call.
C25_DevServerAttempts ==
    sargs.dev =>
        /\ Len(procs) <= TRY_NUM_PORTS
        /\ \A k \in 1..Len(procs) : procs[k].port = npm_port + k - 1
        /\ polls <= MAX_WAIT
        /\ match.found => Len(procs) = attempt + 1
        /\ stpc = "returned" =>
              /\ match.found
              /\ state_network_info.kind = "NetworkInfo"
              /\ state_network_info.npm_server_port = IntOf(Search(npm_out).text)
              /\ \E k \in 1..Len(procs) :
                    /\ procs[k].port = state_network_info.npm_server_port
                    /\ procs[k].status = "serving"
        /\ (StartOver /\ procs # <<>> /\ ~match.found) =>
              /\ sterr = "ValueError"
              /\ Len(procs) = TRY_NUM_PORTS /\ polls = MAX_WAIT
              /\ state_network_info = entry.network_info
        /\ sterr = "ValueError" => ~match.found
C25_Witness ==
    /\ sargs.dev /\ stpc = "returned"
    /\ Len(procs) = 2
    /\ procs[1].status = "exited" /\ procs[2].status = "serving"
    /\ state_network_info.npm_server_port = npm_port + 1
    /\ entry.network_info = NoneInfo

\* C26: no process that start launched outlives cleanup: once cleanup has run
\* every one of them, those of failed port attempts included, has ended.
C26_NoProcessOutlivesCleanup ==
    stpc = "cleaned" =>
        \A k \in 1..Len(procs) : procs[k].status \in {"exited", "terminated"}

\* C27: start leaves the working directory as it was at the call on every
\* way out, when it returns the network info and when it raises.
C27_WorkingDirectoryRestored ==
    StartOver => cwd = entry.cwd

====
